---------------------------- MODULE Spec2Model ----------------------------
(***************************************************************************)
(* SAT oracle builder and Grover search controller (backend/logic.py) and  *)
(* the /solve handler (backend/main.py).                                   *)
(*                                                                         *)
(* An expression is held in the form parse_expression and sympy's to_cnf   *)
(* hand to the rest of the code: the sorted variable names and the tuple   *)
(* of CNF clauses.  A clause is a set of literals [name, neg].  A formula  *)
(* that sympy reduces to a constant arrives as the single "clause"         *)
(* BooleanTrue / BooleanFalse, whose str() is "True" / "False".            *)
(*                                                                         *)
(* Bitstrings are sequences of 0/1, leftmost character first.              *)
(***************************************************************************)
EXTENDS Integers, Sequences, FiniteSets, TLC

\* ------------------------------------------------------------- bounds
MaxVars == 2
MaxClauses == 2
MaxIterations == 2

VarUniverse == <<"A", "B", "C", "D">>

Max(a, b) == IF a >= b THEN a ELSE b

Pow(b, e) == b^e

\* ------------------------------------------------ expressions and CNF

\* var_names = sorted(set(re.findall(...))): the first n names, sorted
VarNames(n) == SubSeq(VarUniverse, 1, n)

NameSet(var_names) == {var_names[i] : i \in 1..Len(var_names)}

\* var_map = {name: i for i, name in enumerate(var_names)}
var_map(var_names, name) ==
    (CHOOSE i \in 1..Len(var_names) : var_names[i] = name) - 1

Lit(name, neg) == [name |-> name, neg |-> neg]

BoolTrue == Lit("True", FALSE)
BoolFalse == Lit("False", FALSE)

\* An assignment maps every variable name to 0 or 1.
Assignments(var_names) == [NameSet(var_names) -> {0, 1}]

\* sympy's substitution of an assignment into a literal, a clause, a CNF
LitValue(lit, assignment) ==
    IF lit = BoolTrue THEN TRUE
    ELSE IF lit = BoolFalse THEN FALSE
    ELSE IF lit.neg THEN assignment[lit.name] = 0
    ELSE assignment[lit.name] = 1

ClauseValue(clause, assignment) ==
    \E lit \in clause : LitValue(lit, assignment)

\* expr.subs(assignment): the expression and its CNF are equivalent
Subs(expr, assignment) ==
    \A i \in 1..Len(expr.clauses) : ClauseValue(expr.clauses[i], assignment)

\* The clauses over the given names: no empty clause, no variable twice.
ClausesOver(var_names) ==
    LET pol == [NameSet(var_names) -> {"pos", "neg", "absent"}]
    IN  { {Lit(nm, p[nm] = "neg") : nm \in {x \in NameSet(var_names) : p[x] # "absent"}}
          : p \in {q \in pol : \E x \in NameSet(var_names) : q[x] # "absent"} }

RECURSIVE SeqsUpTo(_, _)
SeqsUpTo(S, n) ==
    IF n = 0 THEN {<<>>}
    ELSE LET shorter == SeqsUpTo(S, n - 1)
         IN  shorter \cup {Append(s, x) : s \in {t \in shorter : Len(t) = n - 1}, x \in S}

Without(s, i) == SubSeq(s, 1, i - 1) \o SubSeq(s, i + 1, Len(s))

SameFunction(var_names, cs1, cs2) ==
    \A a \in Assignments(var_names) :
        Subs([clauses |-> cs1], a) = Subs([clauses |-> cs2], a)

\* to_cnf(expr, simplify=True) returns a simplified product of sums: the
\* function is not constant, no clause can be dropped and no literal can be
\* dropped from a clause.
IsSimplified(var_names, cs) ==
    /\ \E a \in Assignments(var_names) : Subs([clauses |-> cs], a)
    /\ \A i \in 1..Len(cs) : ~SameFunction(var_names, cs, Without(cs, i))
    /\ \A i \in 1..Len(cs) : \A lit \in cs[i] :
          cs[i] = {lit} \/
          ~SameFunction(var_names, cs, [cs EXCEPT ![i] = cs[i] \ {lit}])

\* A literal and its negation
Complementary(l, k) == l.name = k.name /\ l.neg # k.neg

HasComplementaryPair(lits) == \E l \in lits, k \in lits : Complementary(l, k)

LiteralsOver(var_names) ==
    {Lit(nm, neg) : nm \in NameSet(var_names), neg \in BOOLEAN}

Distinct(s) == \A i \in 1..Len(s), j \in 1..Len(s) : i # j => s[i] # s[j]

\* simplify_logic returns a flat And of literals as it is: unit clauses,
\* possibly a literal together with its negation ("A & ~A").
FlatAnds(var_names) ==
    {s \in SeqsUpTo({{l} : l \in LiteralsOver(var_names)}, MaxClauses) :
        /\ Len(s) >= 2
        /\ Distinct(s)
        /\ HasComplementaryPair(UNION {s[i] : i \in 1..Len(s)})}

\* ... and a flat Or of literals as it is: one clause, possibly with a
\* literal together with its negation ("A | ~A").
FlatOrs(var_names) ==
    {<<c>> : c \in {d \in SUBSET LiteralsOver(var_names) : HasComplementaryPair(d)}}

\* What parse_expression and to_cnf can deliver for n variables: a simplified
\* CNF, a flat And or Or taken as it is, or a constant (a tautology or
\* contradiction that went through the truth table).
Expressions(n) ==
    LET vn == VarNames(n)
    IN  {[var_names |-> vn, clauses |-> cs] :
            cs \in {s \in SeqsUpTo(ClausesOver(vn), MaxClauses) :
                      Len(s) >= 1 /\ IsSimplified(vn, s)}
                   \cup FlatAnds(vn) \cup FlatOrs(vn)
                   \cup {<<{BoolTrue}>>, <<{BoolFalse}>>}}

AllExpressions == UNION {Expressions(n) : n \in 1..MaxVars}

\* ---------------------------------------------------- gate sequences

\* One instruction of a QuantumCircuit: its name, the qubits it acts on (for
\* mcx and mcp the controls followed by the target) and, for a measurement,
\* the classical bit written.
Gate(name, qubits) == [name |-> name, qubits |-> qubits, clbits |-> <<>>]

Measure(qubit, clbit) ==
    [name |-> "measure", qubits |-> <<qubit>>, clbits |-> <<clbit>>]

\* qc.x(list), qc.h(list): one gate per listed qubit, in list order
Broadcast(name, qubits) == [i \in 1..Len(qubits) |-> Gate(name, <<qubits[i]>>)]

\* list(range(lo, hi))
Range(lo, hi) == [i \in 1..Max(hi - lo, 0) |-> lo + i - 1]

\* clause.args if the clause is an Or, else [clause]: the literals in
\* variable order (constants first)
RECURSIVE Literals(_)
Literals(clause) ==
    IF clause = {} THEN <<>>
    ELSE LET first == CHOOSE l \in clause :
                        \A k \in clause : l.name = k.name \/
                            (\E i \in 1..Len(VarUniverse) : VarUniverse[i] = k.name /\
                                \A j \in 1..i : VarUniverse[j] # l.name)
         IN  <<first>> \o Literals(clause \ {first})

\* for lit in literals: var_map[str(sym)] raises KeyError for a name that is
\* not a variable
ClauseHasUnknownName(clause, var_names) ==
    \E lit \in clause : lit.name \notin NameSet(var_names)

RECURSIVE qubits_to_check(_, _)
qubits_to_check(literals, var_names) ==
    IF literals = <<>> THEN <<>>
    ELSE <<var_map(var_names, Head(literals).name)>>
            \o qubits_to_check(Tail(literals), var_names)

\* Mutant of x_gates_to_apply: the negated literals are flipped instead.
RECURSIVE x_gates_wrong_polarity(_, _)
x_gates_wrong_polarity(literals, var_names) ==
    IF literals = <<>> THEN <<>>
    ELSE (IF Head(literals).neg
          THEN <<var_map(var_names, Head(literals).name)>>
          ELSE <<>>)
            \o x_gates_wrong_polarity(Tail(literals), var_names)

RECURSIVE x_gates_to_apply(_, _)
x_gates_to_apply(literals, var_names) ==
    IF literals = <<>> THEN <<>>
    ELSE (IF Head(literals).neg THEN <<>>
          ELSE <<var_map(var_names, Head(literals).name)>>)
            \o x_gates_to_apply(Tail(literals), var_names)

\* apply_clause(clause, target_qubit)
apply_clause(clause, target_qubit, var_names) ==
    LET literals == Literals(clause)
        flips == x_gates_to_apply(literals, var_names)
    IN  Broadcast("x", flips)
        \o <<Gate("mcx", qubits_to_check(literals, var_names) \o <<target_qubit>>)>>
        \o Broadcast("x", flips)
        \o <<Gate("x", <<target_qubit>>)>>

\* the compute loop: for i, clause in enumerate(clauses)
RECURSIVE ComputeClauses(_, _, _, _)
ComputeClauses(clauses, clause_qubits, var_names, i) ==
    IF i > Len(clauses) THEN <<>>
    ELSE apply_clause(clauses[i], clause_qubits[i], var_names)
            \o ComputeClauses(clauses, clause_qubits, var_names, i + 1)

\* the uncompute loop: for i in range(len(clauses)-1, -1, -1)
RECURSIVE UncomputeClauses(_, _, _, _)
UncomputeClauses(clauses, clause_qubits, var_names, i) ==
    IF i < 1 THEN <<>>
    ELSE apply_clause(clauses[i], clause_qubits[i], var_names)
            \o UncomputeClauses(clauses, clause_qubits, var_names, i - 1)

\* phase flip if all clauses are true
PhaseFlip(qubits) ==
    IF Len(qubits) = 0 THEN <<>>
    ELSE IF Len(qubits) = 1 THEN <<Gate("z", qubits)>>
    ELSE <<Gate("mcp", qubits)>>

\* qc.mcx(qubits_to_check, target) raises CircuitError (duplicate qubit
\* arguments) when a variable occurs twice among the controls
ClauseRepeatsQubit(clause) ==
    \E l \in clause, k \in clause : l # k /\ l.name = k.name

\* build_oracle_circuit raises on a clause that names no variable (KeyError)
\* or lists a qubit twice (CircuitError)
OracleRaises(expr) ==
    \E i \in 1..Len(expr.clauses) :
        \/ ClauseHasUnknownName(expr.clauses[i], expr.var_names)
        \/ ClauseRepeatsQubit(expr.clauses[i])

\* Mutant of build_oracle_circuit: the clause ancillas are handed out from
\* the top down.
build_oracle_reversed_ancillas(expr) ==
    LET num_vars == Len(expr.var_names)
        num_clauses == Len(expr.clauses)
        clause_qubits == [i \in 1..num_clauses |-> num_vars + num_clauses - i]
    IN  [num_qubits |-> num_vars + num_clauses,
         gates |-> ComputeClauses(expr.clauses, clause_qubits, expr.var_names, 1)
                   \o PhaseFlip(clause_qubits)
                   \o UncomputeClauses(expr.clauses, clause_qubits, expr.var_names,
                                       num_clauses),
         objective_qubits |-> Range(0, num_vars)]

\* build_oracle_circuit: (qc, list(range(num_vars)))
build_oracle_circuit(expr) ==
    LET num_vars == Len(expr.var_names)
        num_clauses == Len(expr.clauses)
        clause_qubits == Range(num_vars, num_vars + num_clauses)
    IN  [num_qubits |-> num_vars + num_clauses,
         gates |-> ComputeClauses(expr.clauses, clause_qubits, expr.var_names, 1)
                   \o PhaseFlip(clause_qubits)
                   \o UncomputeClauses(expr.clauses, clause_qubits, expr.var_names,
                                       num_clauses),
         objective_qubits |-> Range(0, num_vars)]

\* ------------------------------------------------ classical evaluator

\* format(i, '0{n}b'): n binary digits, most significant first
Format(i, n) == [j \in 1..n |-> (i \div Pow(2, n - j)) % 2]

\* assignment = {var_names[j]: int(bin_str[j])}
AssignmentOf(bin_str, var_names) ==
    [nm \in NameSet(var_names) |-> bin_str[var_map(var_names, nm) + 1]]

\* solve_classically: the satisfying strings, in enumeration order
RECURSIVE SolveFrom(_, _)
SolveFrom(expr, i) ==
    LET num_vars == Len(expr.var_names)
        bin_str == Format(i, num_vars)
    IN  IF i >= Pow(2, num_vars) THEN <<>>
        ELSE (IF Subs(expr, AssignmentOf(bin_str, expr.var_names))
              THEN <<bin_str>> ELSE <<>>) \o SolveFrom(expr, i + 1)

solve_classically(expr) == SolveFrom(expr, 0)

\* ------------------------------- classical emulation of a gate list

\* A register: the bit of every qubit and the sign picked up so far.
AllOnes(bits, qubits) == \A i \in 1..Len(qubits) : bits[qubits[i]] = 1

ControlsOf(gate) == SubSeq(gate.qubits, 1, Len(gate.qubits) - 1)
TargetOf(gate) == gate.qubits[Len(gate.qubits)]

ClassicalGate(gate, reg) ==
    IF gate.name \in {"x", "mcx"}
    THEN IF AllOnes(reg.bits, ControlsOf(gate))
         THEN [reg EXCEPT !.bits[TargetOf(gate)] = 1 - @]
         ELSE reg
    ELSE IF gate.name \in {"z", "mcp"}
    THEN IF AllOnes(reg.bits, gate.qubits)
         THEN [reg EXCEPT !.sign = -@]
         ELSE reg
    ELSE reg

RECURSIVE ClassicalRun(_, _, _)
ClassicalRun(gates, i, reg) ==
    IF i > Len(gates) THEN reg
    ELSE LET next == ClassicalGate(gates[i], reg)
         IN  IF next.sign # 0 THEN ClassicalRun(gates, i + 1, next) ELSE reg

\* variable i on qubit i, every other qubit 0, sign +1
InitialRegister(num_qubits, var_names, assignment) ==
    [input |-> <<>>,
     bits |-> [q \in 0..(num_qubits - 1) |->
                 IF q < Len(var_names) THEN assignment[var_names[q + 1]] ELSE 0],
     sign |-> 1]

\* -------------------------------------------------- amplification engine

\* Mutant of add_diffuser: the X layers around the phase flip are left out.
add_diffuser_without_x(target_qubits) ==
    Broadcast("h", target_qubits)
    \o (IF Len(target_qubits) > 1 THEN <<Gate("mcp", target_qubits)>>
        ELSE IF Len(target_qubits) = 1 THEN <<Gate("z", <<target_qubits[1]>>)>>
        ELSE <<>>)
    \o Broadcast("h", target_qubits)

\* add_diffuser(qc, target_qubits): the gates appended
add_diffuser(target_qubits) ==
    Broadcast("h", target_qubits)
    \o Broadcast("x", target_qubits)
    \o (IF Len(target_qubits) > 1 THEN <<Gate("mcp", target_qubits)>>
        ELSE IF Len(target_qubits) = 1 THEN <<Gate("z", <<target_qubits[1]>>)>>
        ELSE <<>>)
    \o Broadcast("x", target_qubits)
    \o Broadcast("h", target_qubits)

\* for _ in range(iterations): compose the oracle, add the diffuser
RECURSIVE GroverIterations(_, _, _)
GroverIterations(oracle_gates, objective_qubits, iterations) ==
    IF iterations <= 0 THEN <<>>
    ELSE oracle_gates \o add_diffuser(objective_qubits)
            \o GroverIterations(oracle_gates, objective_qubits, iterations - 1)

\* qc.measure(objective_qubits, range(len(objective_qubits)))
MeasureAll(objective_qubits) ==
    [i \in 1..Len(objective_qubits) |-> Measure(objective_qubits[i], i - 1)]

\* construct_grover_circuit(oracle_qc, objective_qubits, iterations)
construct_grover_circuit(oracle_qc, objective_qubits, iterations) ==
    [num_qubits |-> oracle_qc.num_qubits,
     num_clbits |-> Len(objective_qubits),
     gates |-> Broadcast("h", objective_qubits)
               \o GroverIterations(oracle_qc.gates, objective_qubits, iterations)
               \o MeasureAll(objective_qubits)]

\* -------------------------------------------------- execution backend
\* The ideal (noise-free) run of a circuit from |0...0>.  Every amplitude of
\* these circuits is an integer over a power of sqrt(2): a state is the
\* integer numerators amp[b] of the basis states b with a nonzero amplitude
\* (qubit q is bit q of b) and the number `halves` of factors 1/sqrt(2) they
\* share.

BitOf(b, q) == (b \div Pow(2, q)) % 2

Toggle(b, q) == IF BitOf(b, q) = 1 THEN b - Pow(2, q) ELSE b + Pow(2, q)

BasisAllOnes(b, qubits) == \A i \in 1..Len(qubits) : BitOf(b, qubits[i]) = 1

\* f itself, as an explicit table (TLC keeps [x \in S |-> e] unevaluated)
Table(f) == f @@ <<>>

RECURSIVE Reduce(_)
Reduce(st) ==
    IF st.halves >= 2 /\ \A b \in DOMAIN st.amp : st.amp[b] % 2 = 0
    THEN Reduce([amp |-> Table([b \in DOMAIN st.amp |-> st.amp[b] \div 2]),
                 halves |-> st.halves - 2])
    ELSE st

\* the numerator of basis state b (0 when b is not listed)
AmpAt(amp, b) == IF b \in DOMAIN amp THEN amp[b] ELSE 0

Hadamard(amp, q, b) ==
    IF BitOf(b, q) = 1
    THEN AmpAt(amp, Toggle(b, q)) - AmpAt(amp, b)
    ELSE AmpAt(amp, b) + AmpAt(amp, Toggle(b, q))

\* where a (multi-controlled) X moves basis state b; it is its own inverse
Flip(gate, b) ==
    IF BasisAllOnes(b, ControlsOf(gate)) THEN Toggle(b, TargetOf(gate)) ELSE b

QuantumGate(gate, st) ==
    IF gate.name = "h"
    THEN LET q == gate.qubits[1]
             reach == DOMAIN st.amp \cup {Toggle(b, q) : b \in DOMAIN st.amp}
             new == Table([b \in reach |-> Hadamard(st.amp, q, b)])
         IN  Reduce([amp |-> Table([b \in {x \in reach : new[x] # 0} |-> new[b]]),
                     halves |-> st.halves + 1])
    ELSE IF gate.name \in {"x", "mcx"}
    THEN [st EXCEPT !.amp = Table([b \in {Flip(gate, x) : x \in DOMAIN st.amp} |->
                                      st.amp[Flip(gate, b)]])]
    ELSE IF gate.name \in {"z", "mcp"}
    THEN [st EXCEPT !.amp = Table([b \in DOMAIN st.amp |->
                               IF BasisAllOnes(b, gate.qubits)
                               THEN -st.amp[b] ELSE st.amp[b]])]
    ELSE st

RECURSIVE QuantumRun(_, _, _)
QuantumRun(gates, i, st) ==
    IF i > Len(gates) THEN st
    ELSE LET next == QuantumGate(gates[i], st)
         IN  IF next.halves >= 0 THEN QuantumRun(gates, i + 1, next) ELSE st

\* |0...0>: the one basis state 0 with numerator 1
ZeroState == [amp |-> Table([b \in {0} |-> 1]), halves |-> 0]

\* The key get_counts() gives a basis state: classical bit c is the character
\* at position -(c+1), and holds the qubit a measure gate wrote into it.
CountsKey(qc, b) ==
    [j \in 1..qc.num_clbits |->
        LET c == qc.num_clbits - j
            g == CHOOSE k \in 1..Len(qc.gates) :
                    qc.gates[k].name = "measure" /\ qc.gates[k].clbits = <<c>>
        IN  BitOf(b, qc.gates[g].qubits[1])]

RECURSIVE SumSquares(_, _)
SumSquares(amp, S) ==
    IF S = {} THEN 0
    ELSE LET b == CHOOSE x \in S : TRUE
         IN  amp[b] * amp[b] + SumSquares(amp, S \ {b})

\* The ideal distribution of the measured keys: weight[key] / total.
IdealDistribution(qc) ==
    LET st == QuantumRun(qc.gates, 1, ZeroState)
        live == DOMAIN st.amp
        keys == {CountsKey(qc, b) : b \in live}
    IN  [weight |-> [key \in keys |->
                        SumSquares(st.amp, {b \in live : CountsKey(qc, b) = key})],
         total |-> Pow(2, st.halves)]

\* ------------------------------------------------- search controller

\* sin^2(pi / (4k)) for k = 1, 2, ..., in millionths
SinSqQuarterTurn == <<500000, 146447, 66987, 38060, 24472, 17037>>

\* theta = asin(sqrt(M / N)); max(1, int(round(pi / (4 * theta) - 0.5))).
\* round(x - 0.5) is the k with k < x < k + 1, and pi / (4 * theta) > k
\* exactly when M / N < sin^2(pi / (4k)).  At M / N = 1/2 the float quotient
\* is 0.4999999999999998 and rounds to 0.
RoundedTurns(M, N) ==
    Cardinality({k \in 1..Len(SinSqQuarterTurn) :
                    M * 1000000 < N * SinSqQuarterTurn[k]})

\* Mutants of optimal_iterations: M = 0 raised to 1 like any count; the quotient
\* rounded without the - 0.5; the result not raised to 1.
optimal_iterations_no_shortcut(M, N) ==
    IF M = 0 THEN 1 ELSE Max(1, RoundedTurns(M, N))

optimal_iterations_rounded_up(M, N) ==
    IF M = 0 THEN 0 ELSE Max(1, RoundedTurns(M, N) + 1)

optimal_iterations_unfloored(M, N) ==
    IF M = 0 THEN 0 ELSE RoundedTurns(M, N)

optimal_iterations(M, N) ==
    IF M = 0 THEN 0 ELSE Max(1, RoundedTurns(M, N))

\* m and lam are floats; every value m takes is a power of 6/5, held here as
\* the exact fraction.  No m comes near an integer or near max_m, so the
\* float and the fraction give the same int(m) and the same comparison.
Fraction(num, den) == [num |-> num, den |-> den]

lam == Fraction(6, 5)

Times(x, y) == Fraction(x.num * y.num, x.den * y.den)

\* int(m)
IntPart(x) == x.num \div x.den

\* Natural numbers too wide for one integer, as digits of base 10^4, least
\* significant first.
Base == 10^4

RECURSIVE Carry(_, _, _)
Carry(raw, i, c) ==
    IF i > Len(raw)
    THEN IF c = 0 THEN <<>> ELSE <<c % Base>> \o Carry(raw, i, c \div Base)
    ELSE <<(raw[i] + c) % Base>> \o Carry(raw, i + 1, (raw[i] + c) \div Base)

WideSquare(x) ==
    LET lo == x % Base
        hi == x \div Base
    IN  Carry(<<lo * lo, 2 * lo * hi, hi * hi>>, 1, 0)

WideTimes(wide, c) == Carry([i \in 1..Len(wide) |-> wide[i] * c], 1, 0)

Digit(wide, i) == IF i <= Len(wide) THEN wide[i] ELSE 0

WideLeq(x, y) ==
    LET n == Max(Len(x), Len(y))
    IN  ~\E i \in 1..n : /\ Digit(x, i) > Digit(y, i)
                         /\ \A j \in (i + 1)..n : Digit(x, j) = Digit(y, j)

\* Mutant of WithinMaxM: max_m = math.sqrt(N), the factor 2.0 forgotten.
WithinSqrtN(x, N) ==
    WideLeq(WideSquare(x.num), WideTimes(WideSquare(x.den), N))

\* m <= max_m, with max_m = math.sqrt(N) * 2.0: m^2 <= 4N
WithinMaxM(x, N) ==
    WideLeq(WideSquare(x.num), WideTimes(WideSquare(x.den), 4 * N))

\* Mutant of VerifyAssignment: the key is read left to right.
VerifyAssignmentForward(top, var_names) ==
    [nm \in NameSet(var_names) |-> top[var_map(var_names, nm) + 1]]

\* solve_unknown's assignment: q_i is at index -(i+1) of top_measurement
VerifyAssignment(top, var_names) ==
    [nm \in NameSet(var_names) |-> top[Len(top) - var_map(var_names, nm)]]

\* The assignment a measured key stands for: variable i sits on qubit i, which
\* is measured into classical bit i, the character at position -(i+1).
KeyAssignment(key, var_names) ==
    [nm \in NameSet(var_names) |->
        key[Len(key) - ((CHOOSE i \in 1..Len(var_names) : var_names[i] = nm) - 1)]]

\* ------------------------------------------------------------ results

\* A counts dictionary: the keys a run of the circuit can show and the most
\* frequent of them.  None and {} are the two histograms without a key.
Histogram(top, support) == [given |-> TRUE, top |-> top, support |-> support]
NoHistogram == [given |-> FALSE, top |-> <<>>, support |-> {}]
EmptyHistogram == [given |-> TRUE, top |-> <<>>, support |-> {}]

\* transpile, simulator.run(qc, shots=1024), result.get_counts(): any key of
\* nonzero ideal probability may be seen, and may be the most frequent.
Run(qc) ==
    LET support == DOMAIN IdealDistribution(qc).weight
    IN  {Histogram(top, support) : top \in support}

NoResult ==
    [kind |-> "none", error |-> "", found |-> "None", solution |-> <<>>,
     top_measurement |-> <<>>, iterations_used |-> -1, attempts |-> -1,
     histogram |-> NoHistogram, classical_solutions |-> <<>>,
     num_solutions |-> -1, method |-> "", oracle_qubits |-> -1]

Raised(error) == [NoResult EXCEPT !.kind = "raise", !.error = error]

NoOracle == [num_qubits |-> 0, gates |-> <<>>, objective_qubits |-> <<>>]
NoCircuit == [num_qubits |-> 0, num_clbits |-> 0, gates |-> <<>>]
NoRegister == [input |-> <<>>, bits |-> <<>>, sign |-> 1]

\* the iterations argument: -1 stands for None
IterationArgs == {-1} \cup 0..MaxIterations

\* if iterations is None: derive it from the classical solution count
KnownMIterations(expr, objective_qubits, iterations_arg) ==
    IF iterations_arg = -1
    THEN optimal_iterations(Len(solve_classically(expr)),
                            Pow(2, Len(objective_qubits)))
    ELSE iterations_arg

\* ------------------------------------------------------------- state

VARIABLES
    expression,         \* the request: var_names and CNF clauses
    pc,                 \* "idle", "loop" (solve_unknown's while), "done";
                        \* "built", "loaded", "constructed" for the oracle
    entry,              \* the entry point called
    unknown_solutions,  \* the request's unknown_solutions flag
    iterations_arg,     \* the iterations argument (-1: None, -2: no call)
    oracle_qc,          \* build_oracle_circuit's result
    qc,                 \* the last circuit construct_grover_circuit built
    m,                  \* solve_unknown's m
    attempts,           \* solve_unknown's attempts
    iterations,         \* the iteration count in use (-1: none yet)
    top_measurement,    \* the last top measurement taken
    rejected,           \* attempts whose measured key does not satisfy the
                        \* expression (history)
    result,             \* what the entry point returned or raised
    register,           \* classical emulation: the qubits' bits and the sign
    ip                  \* classical emulation: the next gate of oracle_qc

vars == <<expression, pc, entry, unknown_solutions, iterations_arg, oracle_qc,
          qc, m, attempts, iterations, top_measurement, rejected, result,
          register, ip>>

Start(exprs) ==
    /\ expression \in exprs
    /\ pc = "idle"
    /\ entry = "none"
    /\ unknown_solutions = FALSE
    /\ iterations_arg = -2
    /\ oracle_qc = NoOracle
    /\ qc = NoCircuit
    /\ m = Fraction(1, 1)
    /\ attempts = 0
    /\ iterations = -1
    /\ top_measurement = <<>>
    /\ rejected = 0
    /\ result = NoResult
    /\ register = NoRegister
    /\ ip = 0

\* ---------------------------------------------- known-M entry points

\* solve_quantum(expression_string, iterations)
SolveQuantum ==
    /\ pc = "idle"
    /\ pc' = "done"
    /\ entry' = "solve_quantum"
    /\ \E arg \in IterationArgs :
        /\ iterations_arg' = arg
        /\ IF OracleRaises(expression)
          THEN /\ result' = Raised("ValueError")
               /\ UNCHANGED <<oracle_qc, qc, iterations, top_measurement>>
          ELSE LET o == build_oracle_circuit(expression)
                   k == KnownMIterations(expression, o.objective_qubits, arg)
                   c == construct_grover_circuit(o, o.objective_qubits, k)
               IN  \E counts \in Run(c) :
                      /\ oracle_qc' = o
                      /\ iterations' = k
                      /\ qc' = c
                      /\ top_measurement' = counts.top
                      /\ result' = [NoResult EXCEPT
                                      !.kind = "return",
                                      !.top_measurement = counts.top,
                                      !.iterations_used = k,
                                      !.oracle_qubits = o.num_qubits]
    /\ UNCHANGED <<expression, unknown_solutions, m, attempts, rejected,
                   register, ip>>

\* get_histogram_data / get_histogram_with_iterations: {} when the oracle
\* cannot be built, else the counts
HistogramCall(name, args) ==
    /\ pc = "idle"
    /\ pc' = "done"
    /\ entry' = name
    /\ \E arg \in args :
        /\ iterations_arg' = arg
        /\ IF OracleRaises(expression)
          THEN /\ result' = [NoResult EXCEPT !.kind = "return",
                                             !.histogram = EmptyHistogram]
               /\ UNCHANGED <<oracle_qc, qc, iterations>>
          ELSE LET o == build_oracle_circuit(expression)
                   k == KnownMIterations(expression, o.objective_qubits, arg)
                   c == construct_grover_circuit(o, o.objective_qubits, k)
               IN  \E counts \in Run(c) :
                      /\ oracle_qc' = o
                      /\ iterations' = k
                      /\ qc' = c
                      /\ result' = [NoResult EXCEPT !.kind = "return",
                                                    !.histogram = counts]
    /\ UNCHANGED <<expression, unknown_solutions, top_measurement, m, attempts,
                   rejected, register, ip>>

GetHistogramData == HistogramCall("get_histogram_data", IterationArgs)

GetHistogramWithIterations ==
    HistogramCall("get_histogram_with_iterations", 0..MaxIterations)

\* result_data as solve_sat first fills it
ResultData(expr) ==
    [NoResult EXCEPT !.kind = "return",
                     !.classical_solutions = solve_classically(expr),
                     !.num_solutions = Len(solve_classically(expr)),
                     !.method = "classical_optimized"]

\* POST /solve with unknown_solutions = False
SolveSatKnown ==
    /\ pc = "idle"
    /\ pc' = "done"
    /\ entry' = "solve_sat"
    /\ iterations_arg' = -1
    /\ IF OracleRaises(expression)
       THEN /\ result' = [ResultData(expression) EXCEPT
                            !.histogram = EmptyHistogram]
            /\ UNCHANGED <<oracle_qc, qc, iterations, top_measurement>>
       ELSE LET o == build_oracle_circuit(expression)
                k == KnownMIterations(expression, o.objective_qubits, -1)
                c == construct_grover_circuit(o, o.objective_qubits, k)
            IN  \E counts \in Run(c) :
                   /\ oracle_qc' = o
                   /\ iterations' = k
                   /\ qc' = c
                   /\ top_measurement' = counts.top
                   /\ result' = [ResultData(expression) EXCEPT
                                    !.histogram = counts,
                                    !.top_measurement = counts.top]
    /\ UNCHANGED <<expression, unknown_solutions, m, attempts, rejected,
                   register, ip>>

\* ------------------------------------------------------ adaptive mode

\* what solve_sat makes of solve_unknown's return value
FromUnknown(expr, quantum_result) ==
    [ResultData(expr) EXCEPT
        !.top_measurement = IF quantum_result.found = "True"
                            THEN quantum_result.solution ELSE <<>>,
        !.method = "unknown_solutions_randomized",
        !.found = quantum_result.found,
        !.solution = quantum_result.solution,
        !.iterations_used = quantum_result.iterations_used,
        !.attempts = quantum_result.attempts,
        !.histogram = quantum_result.histogram]

\* the value the caller ends with: solve_unknown's own, or solve_sat's view
Deliver(quantum_result) ==
    IF entry = "solve_sat" THEN FromUnknown(expression, quantum_result)
    ELSE quantum_result

\* solve_unknown up to its while loop, called directly or by POST /solve with
\* unknown_solutions = True (which turns the ValueError into HTTPException)
SolveUnknownStart ==
    /\ pc = "idle"
    /\ \E caller \in {"solve_unknown", "solve_sat"} :
        /\ entry' = caller
        /\ unknown_solutions' = (caller = "solve_sat")
        /\ IF OracleRaises(expression)
           THEN /\ pc' = "done"
                /\ result' = Raised(IF caller = "solve_sat" THEN "HTTPException"
                                    ELSE "ValueError")
                /\ UNCHANGED oracle_qc
           ELSE /\ pc' = "loop"
                /\ oracle_qc' = build_oracle_circuit(expression)
                /\ UNCHANGED result
    /\ m' = Fraction(1, 1)
    /\ attempts' = 0
    /\ UNCHANGED <<expression, iterations_arg, qc, iterations, top_measurement,
                   rejected, register, ip>>

\* one pass of the while loop: draw, run, verify, return or grow m
Attempt ==
    /\ pc = "loop"
    /\ WithinMaxM(m, Pow(2, Len(expression.var_names)))
    /\ attempts' = attempts + 1
    /\ \E drawn \in 1..Max(1, IntPart(m)) :
        LET c == construct_grover_circuit(oracle_qc, oracle_qc.objective_qubits,
                                          drawn)
        IN  \E counts \in Run(c) :
              /\ iterations' = drawn
              /\ qc' = c
              /\ top_measurement' = counts.top
              /\ rejected' = IF Subs(expression,
                                     KeyAssignment(counts.top, expression.var_names))
                             THEN rejected ELSE rejected + 1
              /\ IF Subs(expression,
                         VerifyAssignment(counts.top, expression.var_names))
                 THEN \E histogram \in Run(c) :
                        /\ pc' = "done"
                        /\ m' = m
                        /\ result' = Deliver([NoResult EXCEPT
                                        !.kind = "return",
                                        !.solution = counts.top,
                                        !.iterations_used = drawn,
                                        !.found = "True",
                                        !.attempts = attempts + 1,
                                        !.histogram = histogram])
                 ELSE /\ pc' = "loop"
                      /\ m' = Times(m, lam)
                      /\ UNCHANGED result
    /\ UNCHANGED <<expression, entry, unknown_solutions, iterations_arg,
                   oracle_qc, register, ip>>

\* the while condition fails: no solution found within search limits
Exhausted ==
    /\ pc = "loop"
    /\ ~WithinMaxM(m, Pow(2, Len(expression.var_names)))
    /\ pc' = "done"
    /\ result' = Deliver([NoResult EXCEPT !.kind = "return",
                                          !.found = "False",
                                          !.attempts = attempts])
    /\ UNCHANGED <<expression, entry, unknown_solutions, iterations_arg,
                   oracle_qc, qc, m, attempts, iterations, top_measurement,
                   rejected, register, ip>>

\* The search controller is run on the expressions of one and two variables
\* (N = 2 and N = 4).
Init == Start(Expressions(1) \cup Expressions(2))

Next ==
    \/ SolveQuantum
    \/ GetHistogramData
    \/ GetHistogramWithIterations
    \/ SolveSatKnown
    \/ SolveUnknownStart
    \/ Attempt
    \/ Exhausted

Spec == Init /\ [][Next]_vars

\* ------------------------------- the oracle compiler on its own

\* build_oracle_circuit(expression_string)
BuildOracle ==
    /\ pc = "idle"
    /\ entry' = "build_oracle_circuit"
    /\ IF OracleRaises(expression)
       THEN /\ pc' = "done"
            /\ result' = Raised("Exception")
            /\ UNCHANGED oracle_qc
       ELSE /\ pc' = "built"
            /\ oracle_qc' = build_oracle_circuit(expression)
            /\ UNCHANGED result
    /\ UNCHANGED <<expression, unknown_solutions, iterations_arg, qc, m,
                   attempts, iterations, top_measurement, rejected, register, ip>>

\* Put an assignment on the variable qubits, every clause ancilla at 0.
LoadAssignment ==
    /\ pc = "built"
    /\ pc' = "loaded"
    /\ \E a \in Assignments(expression.var_names) :
          register' = [InitialRegister(oracle_qc.num_qubits,
                                       expression.var_names, a)
                       EXCEPT !.input = [i \in 1..Len(expression.var_names) |->
                                           a[expression.var_names[i]]]]
    /\ ip' = 1
    /\ UNCHANGED <<expression, entry, unknown_solutions, iterations_arg,
                   oracle_qc, qc, m, attempts, iterations, top_measurement,
                   rejected, result>>

\* Execute the next gate of the oracle as classical reversible logic.
StepGate ==
    /\ pc = "loaded"
    /\ ip <= Len(oracle_qc.gates)
    /\ register' = ClassicalGate(oracle_qc.gates[ip], register)
    /\ ip' = ip + 1
    /\ UNCHANGED <<expression, pc, entry, unknown_solutions, iterations_arg,
                   oracle_qc, qc, m, attempts, iterations, top_measurement,
                   rejected, result>>

\* construct_grover_circuit(oracle_qc, objective_qubits, iterations)
ConstructGrover ==
    /\ pc = "built"
    /\ pc' = "constructed"
    /\ \E k \in 0..MaxIterations :
          /\ iterations' = k
          /\ qc' = construct_grover_circuit(oracle_qc,
                                            oracle_qc.objective_qubits, k)
    /\ UNCHANGED <<expression, entry, unknown_solutions, iterations_arg,
                   oracle_qc, m, attempts, top_measurement, rejected, result,
                   register, ip>>

InitOracle == Start(AllExpressions)

NextOracle ==
    \/ BuildOracle
    \/ LoadAssignment
    \/ StepGate
    \/ ConstructGrover

SpecOracle == InitOracle /\ [][NextOracle]_vars
\* ============================================================ claims

\* "A & B": variables [A, B], CNF clauses (A, B)
ExprAandB ==
    [var_names |-> <<"A", "B">>,
     clauses |-> <<{Lit("A", FALSE)}, {Lit("B", FALSE)}>>]

\* "A & ~A": variable [A], the flat And kept as the clauses (A, ~A)
ExprAandNotA ==
    [var_names |-> <<"A">>,
     clauses |-> <<{Lit("A", FALSE)}, {Lit("A", TRUE)}>>]

NumVars == Len(expression.var_names)

Emulated == pc = "loaded" /\ ip > Len(oracle_qc.gates)

IsSolution(bin_str) ==
    \E k \in 1..Len(solve_classically(expression)) :
        solve_classically(expression)[k] = bin_str

\* C1: once the oracle's gates have all been executed as classical reversible
\* logic on an assignment (variable i on qubit i, clause ancillas 0), the sign
\* is flipped exactly when solve_classically lists that assignment, and every
\* clause ancilla is back at 0.
C1_OracleMarksSolutions ==
    Emulated =>
        /\ (register.sign = -1) <=> IsSolution(register.input)
        /\ \A q \in NumVars..(oracle_qc.num_qubits - 1) : register.bits[q] = 0

\* a satisfying assignment of a two-clause formula has gone through the oracle
C1_Witness ==
    /\ Emulated
    /\ Len(expression.clauses) = 2
    /\ register.sign = -1
    /\ IsSolution(register.input)

\* the gate of the circuit at position i, and the qubits 0..n-1 as a list
GateAt(i) == qc.gates[i]
FirstQubits(n) == [i \in 1..n |-> i - 1]

\* the r-th oracle + diffuser round starts after this many gates
RoundStart(r) == NumVars + r * (Len(oracle_qc.gates) + 4 * NumVars + 1)

\* C9: the circuit construct_grover_circuit builds for k iterations is H on
\* every objective qubit, then k rounds of the oracle's gates followed by the
\* diffuser (H layer, X layer, one phase flip over all objective qubits - a Z
\* for a single qubit -, X layer, H layer), then the measurement of objective
\* qubit i into classical bit i; no diffuser gate touches a clause ancilla.
C9_GroverCircuitShape ==
    pc = "constructed" =>
        LET n == NumVars
            L == Len(oracle_qc.gates)
        IN  /\ Len(qc.gates) = n + iterations * (L + 4 * n + 1) + n
            /\ \A i \in 1..n : GateAt(i) = Gate("h", <<i - 1>>)
            /\ \A r \in 0..(iterations - 1) :
                  LET o == RoundStart(r)
                      d == o + L
                  IN  /\ \A i \in 1..L : GateAt(o + i) = oracle_qc.gates[i]
                      /\ \A i \in 1..n :
                            /\ GateAt(d + i) = Gate("h", <<i - 1>>)
                            /\ GateAt(d + n + i) = Gate("x", <<i - 1>>)
                            /\ GateAt(d + 2 * n + 1 + i) = Gate("x", <<i - 1>>)
                            /\ GateAt(d + 3 * n + 1 + i) = Gate("h", <<i - 1>>)
                      /\ GateAt(d + 2 * n + 1) =
                            (IF n = 1 THEN Gate("z", <<0>>)
                             ELSE Gate("mcp", FirstQubits(n)))
                      /\ \A i \in 1..(4 * n + 1) :
                            \A j \in 1..Len(GateAt(d + i).qubits) :
                                GateAt(d + i).qubits[j] < n
            /\ \A i \in 1..n :
                  GateAt(RoundStart(iterations) + i) = Measure(i - 1, i - 1)

\* two rounds have been laid out for a two-variable, two-clause oracle
C9_Witness ==
    /\ pc = "constructed"
    /\ iterations = 2
    /\ NumVars = 2
    /\ Len(expression.clauses) = 2

OracleBuilt == pc \in {"built", "loaded", "constructed"}

\* the multi-controlled flips of the oracle, in order
RECURSIVE McxGates(_)
McxGates(gates) ==
    IF gates = <<>> THEN <<>>
    ELSE (IF Head(gates).name = "mcx" THEN <<Head(gates).qubits>> ELSE <<>>)
            \o McxGates(Tail(gates))

\* C10 as stated: "A & B" compiles to one clause of two positive literals, one
\* ancilla (3 qubits) computed by one flip controlled on both variable qubits.
C10_OneClauseForAandB ==
    (OracleBuilt /\ expression = ExprAandB) =>
        /\ Len(expression.clauses) = 1
        /\ oracle_qc.num_qubits = 3
        /\ \E i \in 1..Len(oracle_qc.gates) :
              oracle_qc.gates[i] = Gate("mcx", <<0, 1, 2>>)

\* C10, amended: "A & B" compiles to two clauses of one positive literal each,
\* ancillas 2 and 3 (4 qubits), each computed by a flip controlled on its one
\* variable qubit; in general the variable qubits are 0..numVars-1 and clause
\* i has the ancilla numVars + i, the target of its compute and uncompute flip
\* and of no other clause's.
C10_QubitLayout ==
    OracleBuilt =>
        LET n == NumVars
            c == Len(expression.clauses)
            flips == McxGates(oracle_qc.gates)
        IN  /\ oracle_qc.objective_qubits = FirstQubits(n)
            /\ oracle_qc.num_qubits = n + c
            /\ Len(flips) = 2 * c
            /\ \A i \in 1..c :
                  /\ flips[i][Len(flips[i])] = n + i - 1
                  /\ flips[2 * c + 1 - i] = flips[i]
                  /\ Len(flips[i]) = Cardinality(expression.clauses[i]) + 1
                  /\ \A j \in 1..(Len(flips[i]) - 1) : flips[i][j] < n
            /\ expression = ExprAandB =>
                  /\ oracle_qc.num_qubits = 4
                  /\ flips = <<<<0, 2>>, <<1, 3>>, <<1, 3>>, <<0, 2>>>>

\* the oracle of "A & B" has been built
C10_Witness == pc = "built" /\ expression = ExprAandB

\* ------------------------------------------- search controller claims

N == Pow(2, NumVars)

Done == pc = "done"

\* a known-M call: iterations left to the controller
KnownM == iterations_arg = -1

\* the entry point is the adaptive search, alone or behind POST /solve
Adaptive ==
    entry = "solve_unknown" \/ (entry = "solve_sat" /\ unknown_solutions)

\* the top measurement a finished known-M call reports
ReportedTop ==
    IF entry \in {"get_histogram_data", "get_histogram_with_iterations"}
    THEN result.histogram.top
    ELSE result.top_measurement

\* the measured key satisfies the expression
KeySatisfies(key) == Subs(expression, KeyAssignment(key, expression.var_names))

RECURSIVE SumWeights(_, _)
SumWeights(weight, keys) ==
    IF keys = {} THEN 0
    ELSE LET key == CHOOSE x \in keys : TRUE
         IN  weight[key] + SumWeights(weight, keys \ {key})

\* the ideal weight of the keys that satisfy the expression
MarkedWeight(dist) ==
    SumWeights(dist.weight, {key \in DOMAIN dist.weight : KeySatisfies(key)})

\* C2: a string means the same assignment in solve_classically's list and as
\* a key of the counts, so the top measurement POST /solve reports is in
\* classical_solutions exactly when the measured qubits satisfy the expression.
C2_SameEncoding ==
    (Done /\ entry = "solve_sat" /\ ~unknown_solutions
          /\ result.top_measurement # <<>>) =>
        ((\E k \in 1..Len(result.classical_solutions) :
              result.classical_solutions[k] = result.top_measurement)
         <=> KeySatisfies(result.top_measurement))

\* C3: for "A & ~A" the classical solution list is empty, a known-M call ends
\* normally with 0 iterations and a measurement, and the adaptive search ends
\* normally with found = false.
C3_Unsatisfiable ==
    expression = ExprAandNotA =>
        /\ solve_classically(expression) = <<>>
        /\ (Done /\ KnownM /\ entry \in {"solve_quantum", "get_histogram_data",
                                           "solve_sat"}) =>
              /\ result.kind = "return"
              /\ iterations = 0
              /\ Len(ReportedTop) = 1
              /\ entry = "solve_quantum" => result.iterations_used = 0
        /\ (Done /\ Adaptive) =>
              /\ result.kind = "return"
              /\ result.found = "False"

\* the adaptive search of "A & ~A" has returned
C3_Witness ==
    /\ expression = ExprAandNotA
    /\ Done
    /\ entry = "solve_unknown"
    /\ result.found = "False"

\* C4: for "A & B" the classical solutions are ["11"], a known-M call uses 1
\* iteration, and its circuit gives "11" ideal probability above 1/2, so "11"
\* is the top measurement.
C4_AandB ==
    expression = ExprAandB =>
        /\ solve_classically(expression) = <<<<1, 1>>>>
        /\ N = 4
        /\ (Done /\ KnownM /\ entry \in {"solve_quantum", "get_histogram_data",
                                           "solve_sat"}) =>
              LET dist == IdealDistribution(qc)
              IN  /\ iterations = 1
                  /\ Len(qc.gates) = 2 + Len(oracle_qc.gates) + 9 + 2
                  /\ <<1, 1>> \in DOMAIN dist.weight
                  /\ 2 * dist.weight[<<1, 1>>] > dist.total
                  /\ ReportedTop = <<1, 1>>

\* POST /solve for "A & B" has answered "11"
C4_Witness ==
    /\ expression = ExprAandB
    /\ Done
    /\ entry = "solve_sat"
    /\ ~unknown_solutions
    /\ result.top_measurement = <<1, 1>>
    /\ result.classical_solutions = <<<<1, 1>>>>

\* two of the four assignments of a two-variable expression satisfy it
TwoOfFour == NumVars = 2 /\ Len(solve_classically(expression)) = 2

KnownMFinished ==
    /\ Done
    /\ KnownM
    /\ entry \in {"solve_quantum", "get_histogram_data", "solve_sat"}
    /\ result.kind = "return"

\* C5 as stated: with M = 2 of N = 4 the computed iteration count makes the
\* circuit measure a satisfying assignment with near-certain (at least 9/10)
\* ideal probability.
C5_NearCertain ==
    (KnownMFinished /\ TwoOfFour) =>
        LET dist == IdealDistribution(qc)
        IN  10 * MarkedWeight(dist) >= 9 * dist.total

\* C5, amended: with M = 2 of N = 4 the computed iteration count is 1, and
\* after that one round the two satisfying keys hold exactly half of the ideal
\* probability.
C5_HalfMarked ==
    (KnownMFinished /\ TwoOfFour) =>
        LET dist == IdealDistribution(qc)
        IN  /\ iterations = 1
            /\ 2 * MarkedWeight(dist) = dist.total

\* a known-M call on a two-clause expression with two solutions has returned
C5_Witness ==
    /\ KnownMFinished
    /\ TwoOfFour
    /\ Len(expression.clauses) = 2
    /\ entry = "solve_quantum"

\* the number of k >= 1 with 1.2^(k-1) <= 2 * sqrt(N)
ExpectedAttempts ==
    Cardinality({k \in 1..12 :
        WideLeq(WideSquare(Pow(6, k - 1)),
                WideTimes(WideSquare(Pow(5, k - 1)), 4 * N))})

C6_State ==
    /\ pc = "loop" =>
          /\ attempts <= ExpectedAttempts
          /\ rejected = attempts
          /\ m = Fraction(Pow(6, attempts), Pow(5, attempts))
    /\ (Done /\ Adaptive /\ result.found = "False") =>
          /\ result.attempts = ExpectedAttempts
          /\ result.attempts >= 1
          /\ rejected = result.attempts

C6_Step ==
    attempts' = attempts + 1 =>
        WideLeq(WideSquare(Pow(6, attempts)),
                WideTimes(WideSquare(Pow(5, attempts)), 4 * N))

\* C6: while no candidate passes verification, m is 1.2^attempts; an attempt
\* starts only while m <= 2 * sqrt(N); and the search ends with found = false
\* after exactly as many attempts as there are k >= 1 with
\* 1.2^(k-1) <= 2 * sqrt(N).
C6_BoundedSearch == [](C6_State) /\ [][C6_Step]_vars

\* a satisfiable two-variable expression was given up after 8 attempts
C6_Witness ==
    /\ Done
    /\ Adaptive
    /\ result.found = "False"
    /\ NumVars = 2
    /\ Len(solve_classically(expression)) > 0
    /\ result.attempts = 8

\* C7: a found = true result carries the winning attempt's top measurement,
\* which read with variable i at position -(i+1) satisfies the expression, the
\* iteration count drawn in that attempt and the number of attempts made, all
\* earlier ones having failed; a found = false result means no attempt's
\* candidate satisfied the expression.
C7_AdaptiveResult ==
    (Done /\ Adaptive /\ result.kind = "return") =>
        /\ result.found \in {"True", "False"}
        /\ result.attempts = attempts
        /\ result.found = "True" =>
              /\ result.solution = top_measurement
              /\ Len(result.solution) = NumVars
              /\ Subs(expression,
                      [nm \in NameSet(expression.var_names) |->
                          result.solution[NumVars + 1 -
                              (CHOOSE i \in 1..NumVars :
                                  expression.var_names[i] = nm)]])
              /\ result.iterations_used = iterations
              /\ rejected = attempts - 1
              /\ entry = "solve_sat" => result.top_measurement = result.solution
        /\ result.found = "False" =>
              /\ rejected = attempts
              /\ result.solution = <<>>

\* a later attempt won with a key that is not a palindrome
C7_Witness ==
    /\ Done
    /\ Adaptive
    /\ result.found = "True"
    /\ attempts >= 2
    /\ NumVars = 2
    /\ result.solution[1] # result.solution[2]

\* C8: when build_oracle_circuit raises, the entry point ends in an error.
C8_CompileFailureSurfaced ==
    (Done /\ OracleRaises(expression)) => result.kind = "raise"

=============================================================================
